---- MODULE Spec2Model ----
(***************************************************************************)
(* Model of examples/src/bin/ble_bond_peripheral.rs: the Bonder (the       *)
(* in-memory bond store behind the BondHandler callbacks), the battery     *)
(* service's write dispatch and the advertise / serve loop of              *)
(* bluetooth_task.                                                         *)
(*                                                                         *)
(* The executor is single-threaded and cooperative: a callback runs to     *)
(* completion, and the lifecycle task runs from one await to the next, so  *)
(* each callback is one action and the lifecycle task is cut at its two    *)
(* awaits (advertise_bondable, gatt_server::run) and at the end of the     *)
(* loop body.  A panic (unwrap!, unimplemented!) ends the process: pc      *)
(* becomes "panicked" and nothing is enabled any more.                     *)
(***************************************************************************)
EXTENDS Integers, Sequences, FiniteSets, TLC

\* ------------------------------------------------------------- bounds
\* Address values per address kind.
NumAddrValues == 2
\* Longest attribute blob the GATT layer reports in a model run.
MaxBlobLen == 1

\* ---------------------------------------------------------- constants
\* heapless::Vec<u8, 62>
Capacity == 62

\* ------------------------------------------------------------ Option
None == <<>>
Some(x) == <<x>>
Unwrap(o) == o[1]

\* -------------------------------------------------------------- data
AddressType ==
    {"Public", "RandomStatic", "RandomPrivateResolvable",
     "RandomPrivateNonResolvable", "Anonymous"}

Address == [kind : AddressType, val : 1..NumAddrValues]

\* Values of ediv (16 bit) and rand (8 bytes) peers present; the code only
\* compares them.
Edivs == {0, 1}
Rands == {0, 1}

MasterId == [ediv : Edivs, rand : Rands]

\* The long-term keys pairing produces in a model run.
Ltks == {1, 2}

\* ble_gap_enc_info_t: the key bytes, and the bitfield's ltk_len, auth and lesc,
\* which the code only copies and logs.
EncInfo == [ltk : Ltks, ltk_len : {16}, auth : {FALSE}, lesc : {FALSE}]

EncKey == [master_id : MasterId, enc_info : EncInfo]

\* Attribute bytes reported by the stack: a value other than the 0 that
\* resize pads with.
Bytes == {1}

RECURSIVE SeqsUpTo(_, _)
SeqsUpTo(S, n) ==
    IF n = 0 THEN {<<>>}
    ELSE LET shorter == SeqsUpTo(S, n - 1)
         IN  shorter \cup {Append(s, b) : s \in {t \in shorter : Len(t) = n - 1}, b \in S}

\* Attribute states the GATT layer may hold for a connection.
Blobs == SeqsUpTo(Bytes, MaxBlobLen)

\* An attribute state that fills the Bonder's buffer, and one that is a byte
\* too long for it.
FullBlob == [i \in 1..Capacity |-> 1]
OversizeBlob == [i \in 1..(Capacity + 1) |-> 1]

\* Outcomes of one GetSysAttrs call: an error, or the attribute state.
SysAttrReports ==
    {[ok |-> FALSE, d |-> <<>>]}
        \cup {[ok |-> TRUE, d |-> d] : d \in Blobs \cup {FullBlob, OversizeBlob}}

\* Attribute handles a write may name: the two of the battery service.
Handles == {"value_handle", "cccd_handle"}

\* Payloads of incoming writes.
Payloads == {<<>>, <<0>>, <<1>>, <<2, 1>>}

\* Incoming writes: every payload to the CCCD handle, one to the value handle.
Writes == {w \in Handles \X Payloads : w[1] = "cccd_handle" \/ w[2] = <<1>>}

VARIABLES
    pc,         \* position of main / bluetooth_task
    cause,      \* what panicked, "none" while the process runs
    conn,       \* the loop's `conn`: None or Some(peer address)
    res,        \* the loop's `res`: "none", "ok" or "err"
    live,       \* number of Connection values the task holds
    peer,       \* Bonder.peer
    sys_attrs,  \* Bonder.sys_attrs: [addr, data]
    out,        \* the latest callback on the active connection, its result and
                \* the values it logged
    bonded,     \* history: the key of the latest on_bonded
    captured,   \* history: address and reported blob of the latest save_sys_attrs
    bondHist,   \* history: "none" before any on_bonded; "first" / "replaced" when
                \* the latest on_bonded, on the active connection, found the slot
                \* empty / full; "earlier" when it was on an earlier connection
    advEntered  \* history: entries into advertising since the last disconnect

vars == <<pc, cause, conn, res, live, peer, sys_attrs, out,
          bonded, captured, bondHist, advEntered>>

\* ------------------------------------------------------------ Bonder
\* A Bonder that starts with an all-zero key in its slot.
Bonder_zeroed ==
    [peer |-> Some([master_id |-> [ediv |-> 0, rand |-> 0],
                    enc_info |-> [ltk |-> 0, ltk_len |-> 0,
                                  auth |-> FALSE, lesc |-> FALSE]]),
     sys_attrs |-> [addr |-> None, data |-> <<>>]]

\* Bonder::default(): no key, no address, an empty blob.
Bonder_default ==
    [peer |-> None, sys_attrs |-> [addr |-> None, data |-> <<>>]]

\* on_bonded with the slot kept when one is already stored.
on_bonded_keep_first(p, key) == IF p = None THEN Some(key) ELSE p

\* on_bonded: self.peer.set(Some(*key)).
on_bonded_peer(p, key) == Some(key)

\* on_bonded: the values its debug! line formats.
on_bonded_log(key) ==
    <<key.master_id.ediv, key.master_id.rand, key.enc_info.ltk,
      key.enc_info.ltk_len, key.enc_info.auth, key.enc_info.lesc>>

\* get_key: the values its debug! line formats.
get_key_log(master_id) == <<master_id.ediv, master_id.rand>>

\* save_sys_attrs and load_sys_attrs: the value their debug! lines format.
sys_attrs_log(addr) == <<addr>>

\* get_key emptying the slot it reads (Cell::take).
get_key_peer_take(p) == None

\* get_key reads the slot with Cell::get, which leaves it as it is.
get_key_peer(p) == p

\* get_key comparing ediv alone.
get_key_ediv_only(p, master_id) ==
    IF p = None THEN None
    ELSE IF master_id.ediv = Unwrap(p).master_id.ediv
         THEN Some(Unwrap(p).enc_info)
         ELSE None

\* get_key: self.peer.get().and_then(|peer| (ediv == && rand ==).then(|| peer.enc_info)).
get_key(p, master_id) ==
    IF p = None THEN None
    ELSE IF /\ master_id.ediv = Unwrap(p).master_id.ediv
            /\ master_id.rand = Unwrap(p).master_id.rand
         THEN Some(Unwrap(p).enc_info)
         ELSE None

\* get_key answering only connections whose address kind has an identity.
get_key_on_identity(c, p, master_id) ==
    IF c.kind \in {"Public", "RandomStatic"} THEN get_key(p, master_id) ELSE None

\* get_key(&self, _conn, master_id): the connection is not used.
get_key_on(c, p, master_id) == get_key(p, master_id)

\* heapless Vec::resize(new_len, value): Err when new_len exceeds the capacity,
\* else the vector cut or padded with value to new_len.
Resize(v, new_len, value) ==
    IF new_len > Capacity THEN [err |-> TRUE, vec |-> v]
    ELSE [err |-> FALSE,
          vec |-> [i \in 1..new_len |-> IF i <= Len(v) THEN v[i] ELSE value]]

\* truncate leaving the vector as it is.
Truncate_keep(v, len) == v

\* heapless Vec::truncate(len): shortens, never lengthens.
Truncate(v, len) == IF len < Len(v) THEN SubSeq(v, 1, len) ELSE v

\* gatt_server::get_sys_attrs(conn, buf): the stack copies the connection's
\* attribute state d into the front of buf and reports its length; it fails
\* when the stack reports an error or d does not fit buf.
get_sys_attrs(buf, d, stackOk) ==
    IF ~stackOk \/ Len(d) > Len(buf) THEN [err |-> TRUE, len |-> 0, buf |-> buf]
    ELSE [err |-> FALSE, len |-> Len(d),
          buf |-> [i \in 1..Len(buf) |-> IF i <= Len(d) THEN d[i] ELSE buf[i]]]

\* save_sys_attrs without the truncate to the reported length.
save_sys_attrs_no_truncate(sa, addr, d, stackOk) ==
    LET sized == Resize(sa.data, Capacity, 0)
        got   == get_sys_attrs(sized.vec, d, stackOk)
    IN  IF sized.err \/ got.err
        THEN [panic |-> TRUE, sys_attrs |-> [addr |-> sa.addr, data |-> sized.vec]]
        ELSE [panic |-> FALSE, sys_attrs |-> [addr |-> Some(addr), data |-> got.buf]]

\* save_sys_attrs going on after a failed read: the slot is stamped and keeps
\* the zero-padded buffer.
save_sys_attrs_ignore_err(sa, addr, d, stackOk) ==
    LET sized == Resize(sa.data, Capacity, 0)
        got   == get_sys_attrs(sized.vec, d, stackOk)
    IN  [panic |-> FALSE,
         sys_attrs |-> [addr |-> Some(addr),
                        data |-> IF got.err THEN sized.vec
                                 ELSE Truncate(got.buf, got.len % 65536)]]

\* save_sys_attrs: resize to the capacity, read, truncate to the reported
\* length (as u16), stamp with the connection's address.  Either unwrap!
\* panics with the buffer as it then is.
save_sys_attrs_result(sa, addr, d, stackOk) ==
    LET sized == Resize(sa.data, Capacity, 0)
        got   == get_sys_attrs(sized.vec, d, stackOk)
        len   == got.len % 65536
    IN  IF sized.err \/ got.err
        THEN [panic |-> TRUE, sys_attrs |-> [addr |-> sa.addr, data |-> sized.vec]]
        ELSE [panic |-> FALSE,
              sys_attrs |-> [addr |-> Some(addr), data |-> Truncate(got.buf, len)]]

\* load_sys_attrs comparing addresses for the kinds without a stable identity too.
load_sys_attrs_all_kinds(sa, addr, stackOk) ==
    IF addr.kind = "RandomPrivateResolvable"
    THEN [panic |-> "unimplemented", supplied |-> None]
    ELSE IF sa.addr = Some(addr)
         THEN [panic |-> IF stackOk THEN "none" ELSE "set_sys_attrs", supplied |-> Some(sa.data)]
         ELSE [panic |-> "none", supplied |-> None]

\* load_sys_attrs comparing the address values without the kind.
load_sys_attrs_value_only(sa, addr, stackOk) ==
    IF addr.kind \in {"Public", "RandomStatic"}
    THEN IF sa.addr # None /\ Unwrap(sa.addr).val = addr.val
         THEN [panic |-> IF stackOk THEN "none" ELSE "set_sys_attrs", supplied |-> Some(sa.data)]
         ELSE [panic |-> "none", supplied |-> None]
    ELSE IF addr.kind = "RandomPrivateResolvable"
         THEN [panic |-> "unimplemented", supplied |-> None]
         ELSE [panic |-> "none", supplied |-> None]

\* load_sys_attrs: match on the address type; set_sys_attrs only for a Public
\* or RandomStatic address equal to the stored one (its Err is unwrapped);
\* unimplemented!() for RandomPrivateResolvable; plain return otherwise.
load_sys_attrs_result(sa, addr, stackOk) ==
    IF addr.kind \in {"Public", "RandomStatic"}
    THEN IF sa.addr = Some(addr)
         THEN [panic |-> IF stackOk THEN "none" ELSE "set_sys_attrs", supplied |-> Some(sa.data)]
         ELSE [panic |-> "none", supplied |-> None]
    ELSE IF addr.kind = "RandomPrivateResolvable"
         THEN [panic |-> "unimplemented", supplied |-> None]
         ELSE [panic |-> "none", supplied |-> None]

\* ---------------------------------------------------- BatteryService
\* on_write reporting "enabled" for any non-zero first byte.
on_write_log_nonzero(handle, data) ==
    IF handle = "cccd_handle" /\ data # <<>>
    THEN Some(data[1] # 0)
    ELSE None

\* BatteryService::on_write: what it logs, None when it logs nothing.
on_write_log(handle, data) ==
    IF handle = "cccd_handle" /\ data # <<>>
    THEN Some((data[1] % 2) # 0)
    ELSE None

\* ---------------------------------------------------- bluetooth_task
NoCall == [op |-> "none", conn |-> None, arg |-> None, ret |-> None, log |-> <<>>]

\* The loop keeping the Connection of the finished iteration.
DropConnLeak(n) == n

\* End of the loop body: `conn` goes out of scope.
DropConn(n) == n - 1

\* The loop building a new Bonder for every iteration.
LoopBonderFresh(b) == Bonder_default

\* The Bonder the next iteration advertises with: the one put into the static
\* before the loop, which the loop itself never writes.
LoopBonder(b) == b

\* The loop unwrapping the result of gatt_server::run.
AfterRunUnwrapped(r) == IF r = "err" THEN "panicked" ELSE "advertising"

\* After gatt_server::run: an Err is logged, then the loop starts over.
AfterRun(r) == "advertising"

\* The stack invokes the bond handler and the write dispatch for a connection
\* from its establishment to its disconnection.
CallbackWindow == pc = "serving"

\* The callbacks the stack may enter while a callback's GetSysAttrs or
\* SetSysAttrs call is outstanding: callbacks run one at a time on the
\* radio-driver task, so none.
NestedCalls == {"none"}

\* The borrow a callback takes on the sys_attrs RefCell.
BorrowOf(op) == IF op = "save_sys_attrs" THEN "mut" ELSE "shared"

\* RefCell: a borrow fails while a borrow_mut is held, and a borrow_mut
\* fails while any borrow is held.
BorrowConflict(held, nested) ==
    nested # "none" /\ (held = "mut" \/ BorrowOf(nested) = "mut")

Init ==
    /\ pc = "main"
    /\ cause = "none"
    /\ conn = None
    /\ res = "none"
    /\ live = 0
    /\ peer = Bonder_default.peer
    /\ sys_attrs = Bonder_default.sys_attrs
    /\ out = NoCall
    /\ bonded = None
    /\ captured = None
    /\ bondHist = "none"
    /\ advEntered = 0

Panic(why) ==
    /\ pc' = "panicked"
    /\ cause' = why

\* main: unwrap!(Server::new(sd)), then both tasks are spawned.
main ==
    /\ pc = "main"
    /\ \E registered \in BOOLEAN :
          IF registered
          THEN pc' = "idle" /\ cause' = cause
          ELSE Panic("register")
    /\ UNCHANGED <<conn, res, live, peer, sys_attrs, out,
                   bonded, captured, bondHist, advEntered>>

\* bluetooth_task up to its first await: the Bonder is created and the loop
\* calls advertise_bondable.
bluetooth_task_start ==
    /\ pc = "idle"
    /\ pc' = "advertising"
    /\ peer' = Bonder_default.peer
    /\ sys_attrs' = Bonder_default.sys_attrs
    /\ advEntered' = advEntered + 1
    /\ UNCHANGED <<cause, conn, res, live, out, bonded, captured, bondHist>>

\* advertise_bondable completes: unwrap! panics on an error, otherwise the
\* task holds the Connection and awaits gatt_server::run.
advertise_bondable_returns ==
    /\ pc = "advertising"
    /\ \/ /\ Panic("advertise")
          /\ UNCHANGED <<conn, live>>
       \/ \E a \in Address :
             /\ conn' = Some(a)
             /\ live' = live + 1
             /\ pc' = "serving"
             /\ cause' = cause
    /\ UNCHANGED <<res, peer, sys_attrs, out, bonded, captured, bondHist, advEntered>>

\* gatt_server::run completes, with Ok or Err: the connected phase is over.
gatt_server_run_returns ==
    /\ pc = "serving"
    /\ \E r \in {"ok", "err"} : res' = r
    /\ pc' = "returned"
    /\ out' = NoCall
    /\ advEntered' = 0
    /\ UNCHANGED <<cause, conn, live, peer, sys_attrs, bonded, captured, bondHist>>

\* The rest of the loop body and the start of the next iteration: the error
\* is logged, `conn` is dropped, advertise_bondable is called again.
loop_back ==
    /\ pc = "returned"
    /\ pc' = AfterRun(res)
    /\ conn' = None
    /\ live' = DropConn(live)
    /\ res' = "none"
    /\ LET b == LoopBonder([peer |-> peer, sys_attrs |-> sys_attrs])
       IN  peer' = b.peer /\ sys_attrs' = b.sys_attrs
    /\ bondHist' = IF bondHist = "none" THEN "none" ELSE "earlier"
    /\ advEntered' = advEntered + 1
    /\ UNCHANGED <<cause, out, bonded, captured>>

\* ----------------------------------------------------------- callbacks
Called(op, arg, ret, log) ==
    out' = [op |-> op, conn |-> conn, arg |-> arg, ret |-> ret, log |-> log]

on_bonded ==
    /\ CallbackWindow
    /\ \E key \in EncKey :
          /\ peer' = on_bonded_peer(peer, key)
          /\ bonded' = Some(key)
          /\ Called("on_bonded", Some(key), None, on_bonded_log(key))
    /\ bondHist' = IF bonded = None THEN "first" ELSE "replaced"
    /\ UNCHANGED <<pc, cause, conn, res, live, sys_attrs, captured, advEntered>>

get_key_call ==
    /\ CallbackWindow
    /\ \E master_id \in MasterId :
          Called("get_key", Some(master_id),
                 get_key_on(Unwrap(conn), peer, master_id),
                 get_key_log(master_id))
    /\ peer' = get_key_peer(peer)
    /\ UNCHANGED <<pc, cause, conn, res, live, sys_attrs,
                   bonded, captured, bondHist, advEntered>>

save_sys_attrs ==
    /\ CallbackWindow
    /\ \E rep \in SysAttrReports, nested \in NestedCalls :
          LET r == save_sys_attrs_result(sys_attrs, Unwrap(conn), rep.d, rep.ok)
          IN  IF BorrowConflict(BorrowOf("save_sys_attrs"), nested)
              THEN /\ Panic("already_borrowed")
                   /\ sys_attrs' = [sys_attrs EXCEPT !.data = Resize(@, Capacity, 0).vec]
                   /\ captured' = captured
              ELSE /\ sys_attrs' = r.sys_attrs
                   /\ IF r.panic
                      THEN /\ Panic("get_sys_attrs")
                           /\ captured' = captured
                      ELSE /\ pc' = pc /\ cause' = cause
                           /\ captured' = Some([addr |-> Unwrap(conn), blob |-> rep.d])
    /\ Called("save_sys_attrs", None, None, sys_attrs_log(Unwrap(conn)))
    /\ UNCHANGED <<conn, res, live, peer, bonded, bondHist, advEntered>>

load_sys_attrs ==
    /\ CallbackWindow
    /\ \E stackOk \in BOOLEAN, nested \in NestedCalls :
          LET r == load_sys_attrs_result(sys_attrs, Unwrap(conn), stackOk)
          IN  /\ Called("load_sys_attrs", None, r.supplied, sys_attrs_log(Unwrap(conn)))
              /\ IF r.supplied # None
                    /\ BorrowConflict(BorrowOf("load_sys_attrs"), nested)
                 THEN Panic("already_borrowed")
                 ELSE IF r.panic # "none"
                      THEN Panic(r.panic)
                      ELSE pc' = pc /\ cause' = cause
    /\ UNCHANGED <<conn, res, live, peer, sys_attrs,
                   bonded, captured, bondHist, advEntered>>

\* Server::on_write: hands the write to the battery service, returns None.
Server_on_write(handle, data) == None

on_write ==
    /\ CallbackWindow
    /\ \E w \in Writes :
          LET handle == w[1]
              data   == w[2]
          IN  Called("on_write", Some(<<handle, data>>), Server_on_write(handle, data),
                     on_write_log(handle, data))
    /\ UNCHANGED <<pc, cause, conn, res, live, peer, sys_attrs,
                   bonded, captured, bondHist, advEntered>>

Lifecycle ==
    \/ bluetooth_task_start
    \/ loop_back

Next ==
    \/ main
    \/ bluetooth_task_start
    \/ advertise_bondable_returns
    \/ gatt_server_run_returns
    \/ loop_back
    \/ on_bonded
    \/ get_key_call
    \/ save_sys_attrs
    \/ load_sys_attrs
    \/ on_write

Spec == Init /\ [][Next]_vars

\* The executor polls a woken task: the task's own steps are weakly fair.
LiveSpec == Spec /\ WF_vars(Lifecycle)

\* ------------------------------------------------------------ claims
Correlating == {"Public", "RandomStatic"}

\* C1: a lookup returns the key material of the latest recorded bond exactly
\* when both ediv and rand of the presented identifier equal the recorded
\* ones, and nothing otherwise (no key recorded, or only one of the two equal).
C1_LookupExact ==
    out.op = "get_key" =>
        LET M == Unwrap(out.arg)
        IN  out.ret = IF /\ bonded # None
                         /\ M.ediv = Unwrap(bonded).master_id.ediv
                         /\ M.rand = Unwrap(bonded).master_id.rand
                      THEN Some(Unwrap(bonded).enc_info)
                      ELSE None

\* A lookup whose ediv equals the recorded one and whose rand does not.
C1_Witness ==
    /\ out.op = "get_key"
    /\ bonded # None
    /\ Unwrap(out.arg).ediv = Unwrap(bonded).master_id.ediv
    /\ Unwrap(out.arg).rand # Unwrap(bonded).master_id.rand
    /\ out.ret = None

\* C2: a restore for a Public or RandomStatic connection supplies a blob
\* exactly when the latest capture was made for the same address, and then
\* the bytes the GATT layer reported at that capture, no more and no fewer;
\* after a capture for another address, or without any, it supplies nothing.
C2_RestoreExact ==
    (out.op = "load_sys_attrs" /\ Unwrap(out.conn).kind \in Correlating) =>
        out.ret = IF captured # None /\ Unwrap(captured).addr = Unwrap(out.conn)
                  THEN Some(Unwrap(captured).blob)
                  ELSE None

\* A restore that supplies a captured blob of the longest length.
C2_Witness ==
    /\ out.op = "load_sys_attrs"
    /\ Unwrap(out.conn).kind \in Correlating
    /\ captured # None
    /\ Len(Unwrap(captured).blob) = MaxBlobLen
    /\ out.ret = Some(Unwrap(captured).blob)

\* C3 as stated: once a key K1 is recorded, recording any other key K2 makes
\* a lookup with K1's identifier return nothing.
C3_Original ==
    [][(bonded # None /\ out'.op = "on_bonded" /\ bonded' # bonded) =>
          get_key(peer', Unwrap(bonded).master_id) = None]_vars

\* C3, amended: once a key K1 is recorded, recording a key K2 makes a lookup
\* with K1's identifier return nothing when K2's identifier differs from
\* K1's, and K2's key material when the two identifiers are equal.
C3_SecondBondReplaces ==
    [][(bonded # None /\ out'.op = "on_bonded") =>
          get_key(peer', Unwrap(bonded).master_id) =
              IF Unwrap(bonded').master_id = Unwrap(bonded).master_id
              THEN Some(Unwrap(bonded').enc_info)
              ELSE None]_vars

\* A second key has just been recorded over a first.
C3_Witness ==
    /\ out.op = "on_bonded"
    /\ bondHist = "replaced"
    /\ peer = out.arg

\* C4: a restore for a RandomPrivateNonResolvable or Anonymous connection
\* supplies nothing and ends normally, whatever the slot holds.
C4_NoRestoreWithoutIdentity ==
    (/\ out.op = "load_sys_attrs"
     /\ Unwrap(out.conn).kind \in {"RandomPrivateNonResolvable", "Anonymous"}) =>
        out.ret = None /\ pc # "panicked"

\* Such a restore with the slot captured from that very address.
C4_Witness ==
    /\ out.op = "load_sys_attrs"
    /\ Unwrap(out.conn).kind \in {"RandomPrivateNonResolvable", "Anonymous"}
    /\ sys_attrs.addr = out.conn
    /\ sys_attrs.data # <<>>
    /\ out.ret = None

\* C5: the key slot holds the latest recorded key in every state, through
\* every disconnect, serving error and advertising restart, and a lookup with
\* the matching identifier on a later connection returns it.
C5_KeyOutlivesConnection ==
    /\ peer = bonded
    /\ (/\ out.op = "get_key"
        /\ bondHist = "earlier"
        /\ Unwrap(out.arg) = Unwrap(bonded).master_id) =>
           out.ret = Some(Unwrap(bonded).enc_info)

\* A lookup on a later connection that returns the key.
C5_Witness ==
    /\ out.op = "get_key"
    /\ bondHist = "earlier"
    /\ out.ret # None

\* C6: the task never holds more than one Connection; it gains one only while
\* advertising, holding none, and having entered advertising exactly once
\* since the last disconnect (or since startup).
C6_OneConnection ==
    [][/\ live' <= 1
       /\ live' > live => (pc = "advertising" /\ live = 0 /\ advEntered = 1)]_vars

\* A connection accepted after an earlier one ended.
C6_Witness ==
    /\ pc = "serving"
    /\ live = 1
    /\ advEntered = 1
    /\ bondHist = "earlier"

\* C7: whenever gatt_server::run has returned, with Ok or with Err, the task
\* advertises again.
C7_AdvertisesAgain == (pc = "returned") ~> (pc = "advertising")

\* A connected phase, not the first, that ended with a serving error.
C7_Witness ==
    /\ pc = "returned"
    /\ res = "err"
    /\ bondHist = "earlier"

\* C8 as stated: an advertising failure never ends the process.
C8_AdvertiseFailureRecovered == ~(pc = "panicked" /\ cause = "advertise")

\* C9 as stated: a restore returns to its caller without ending the process,
\* whatever the kind of the connection's address.
C9_RestoreNeverFatal == out.op = "load_sys_attrs" => pc # "panicked"

\* C11: whenever a callback can start, the key slot holds nothing or the whole
\* key of the latest on_bonded, and the sys-attrs slot is empty or holds the
\* address and the reported blob of one and the same save_sys_attrs.
C11_NoPartialBondState ==
    CallbackWindow =>
        /\ peer = bonded
        /\ sys_attrs = IF captured = None
                       THEN Bonder_default.sys_attrs
                       ELSE [addr |-> Some(Unwrap(captured).addr),
                             data |-> Unwrap(captured).blob]

\* A new connection starts with a key and with the slot of another peer.
C11_Witness ==
    /\ pc = "serving"
    /\ out.op = "none"
    /\ peer # None
    /\ captured # None
    /\ Unwrap(captured).addr # Unwrap(conn)
    /\ Unwrap(captured).blob # <<>>

\* C12 as stated: on_bonded returns normally and what it logs is the same for
\* any two keys that differ in the key bytes alone.
C12_LogWithoutKeyBytes ==
    out.op = "on_bonded" =>
        /\ pc # "panicked"
        /\ \A ltk \in Ltks :
              on_bonded_log([Unwrap(out.arg) EXCEPT !.enc_info.ltk = ltk]) = out.log

\* C13: a write is reported exactly when it names the configuration handle
\* with a non-empty payload, as enabled exactly when the first byte is odd;
\* the write changes neither slot of the Bonder nor the lifecycle.
C13_WriteDispatch ==
    [][(out'.op = "on_write" /\ out' # out) =>
          LET handle == Unwrap(out'.arg)[1]
              data   == Unwrap(out'.arg)[2]
          IN  /\ out'.log = IF handle = "cccd_handle" /\ Len(data) > 0
                            THEN Some(\E k \in 0..127 : data[1] = 2 * k + 1)
                            ELSE None
              /\ UNCHANGED <<peer, sys_attrs, pc, cause, conn, res, live>>]_vars

\* A write to the configuration handle whose first byte is even and non-zero
\* and whose second byte is odd: reported as disabled.
C13_Witness ==
    /\ out.op = "on_write"
    /\ Unwrap(out.arg) = <<"cccd_handle", <<2, 1>>>>
    /\ out.log = Some(FALSE)

\* C14: the cached blob is never longer than the capacity, and after a
\* save_sys_attrs that returned it is the reported blob, of the reported
\* length, with no byte of an earlier capture or of the padding after it.
C14_BlobBounded ==
    /\ Len(sys_attrs.data) <= Capacity
    /\ (out.op = "save_sys_attrs" /\ pc # "panicked") =>
          /\ Len(sys_attrs.data) = Len(Unwrap(captured).blob)
          /\ sys_attrs.data = Unwrap(captured).blob

\* A capture of an attribute state that fills the buffer.
C14_Witness ==
    /\ out.op = "save_sys_attrs"
    /\ pc = "serving"
    /\ Len(sys_attrs.data) = Capacity

\* C15: before the first on_bonded every lookup returns nothing, also for
\* ediv = 0 and rand = 0; before the first save_sys_attrs every restore for
\* a Public or RandomStatic address supplies nothing.
C15_EmptyAtStart ==
    /\ (out.op = "get_key" /\ bonded = None) => out.ret = None
    /\ (/\ out.op = "load_sys_attrs"
        /\ captured = None
        /\ Unwrap(out.conn).kind \in Correlating) => out.ret = None

\* A lookup with the all-zero identifier before any bond.
C15_Witness ==
    /\ out.op = "get_key"
    /\ bonded = None
    /\ Unwrap(out.arg) = [ediv |-> 0, rand |-> 0]
    /\ out.ret = None

\* C16: on_bonded leaves the sys-attrs slot as it is, save_sys_attrs leaves
\* the key slot as it is, and get_key and load_sys_attrs leave both.
C16_SlotsIndependent ==
    [][out' # out =>
          /\ out'.op = "on_bonded" => sys_attrs' = sys_attrs
          /\ out'.op = "save_sys_attrs" => peer' = peer
          /\ out'.op \in {"get_key", "load_sys_attrs"} =>
                (peer' = peer /\ sys_attrs' = sys_attrs)]_vars

\* A peer is supplied its blob after another key replaced the stored one.
C16_Witness ==
    /\ out.op = "load_sys_attrs"
    /\ out.ret # None
    /\ bondHist = "replaced"

\* C17: what a lookup returns is what it would return on a connection from
\* any other address; in particular a key recorded on an earlier connection
\* is returned whatever the address of the asking connection.
C17_LookupIgnoresConnection ==
    out.op = "get_key" =>
        \A c \in Address : get_key_on(c, peer, Unwrap(out.arg)) = out.ret

\* A connection from an Anonymous address is given the key recorded on an
\* earlier connection.
C17_Witness ==
    /\ out.op = "get_key"
    /\ Unwrap(out.conn).kind = "Anonymous"
    /\ bondHist = "earlier"
    /\ out.ret # None

\* C18: a blob captured from an address of one kind is never supplied to a
\* connection of another kind, also when the address values are equal.
C18_WholeAddressCompared ==
    (/\ out.op = "load_sys_attrs"
     /\ captured # None
     /\ Unwrap(captured).addr.kind # Unwrap(out.conn).kind) => out.ret = None

\* A RandomStatic connection with the value of the Public address the blob
\* was captured from is supplied nothing.
C18_Witness ==
    /\ out.op = "load_sys_attrs"
    /\ captured # None
    /\ Unwrap(captured).addr.kind = "Public"
    /\ Unwrap(out.conn).kind = "RandomStatic"
    /\ Unwrap(captured).addr.val = Unwrap(out.conn).val
    /\ Unwrap(captured).blob # <<>>
    /\ out.ret = None

====
